---- MODULE Spec2Model ----
(***************************************************************************)
(* ssh-mgmt.py: a registry of remote servers kept in one JSON file.  Each  *)
(* invocation of the program parses one command, loads and validates the   *)
(* file, applies the command to the in-memory registry, writes the         *)
(* registry back and exits.  The model runs invocations in two terminals   *)
(* that share the registry file.                                           *)
(*                                                                         *)
(* Python text is modelled as a sequence of one-character strings, so that *)
(* IPv4 parsing and the formatting of the ssh argument are computed.       *)
(* Hostnames are only ever used as dictionary keys and stay TLA+ strings.  *)
(***************************************************************************)
EXTENDS Integers, Sequences, FiniteSets, TLC

\* The terminals from which invocations are started.
Procs == {"p1", "p2"}

\* Largest value of the wall clock (seconds since the epoch).
MaxTime == 2

\* Largest number of invocations started in one behaviour when invocations
\* may overlap, and when they run one after the other.
MaxRuns == 2
MaxSeqRuns == 3

Hostnames == {"box1", "box2"}

-----------------------------------------------------------------------------
(* Python values and JSON values.  Every value carries all four fields so   *)
(* that values of different types can be compared.                          *)

EmptyDict == [k \in {} |-> 0]

PyStr(s) == [t |-> "str", s |-> s, n |-> 0, d |-> EmptyDict]
PyInt(n) == [t |-> "int", s |-> <<>>, n |-> n, d |-> EmptyDict]
PyNone == [t |-> "NoneType", s |-> <<>>, n |-> 0, d |-> EmptyDict]
PyList == [t |-> "list", s |-> <<>>, n |-> 0, d |-> EmptyDict]
PyDict(d) == [t |-> "dict", s |-> <<>>, n |-> 0, d |-> d]

JStr(s) == [j |-> "string", s |-> s, n |-> 0, d |-> EmptyDict]
JNum(n) == [j |-> "number", s |-> <<>>, n |-> n, d |-> EmptyDict]
JNull == [j |-> "null", s |-> <<>>, n |-> 0, d |-> EmptyDict]
JArr == [j |-> "array", s |-> <<>>, n |-> 0, d |-> EmptyDict]
JObj(d) == [j |-> "object", s |-> <<>>, n |-> 0, d |-> d]

\* json.dump(obj): dict -> object, str -> string, int -> number,
\* None -> null, list -> array.
RECURSIVE json_dump(_)
json_dump(v) ==
    CASE v.t = "str" -> JStr(v.s)
      [] v.t = "int" -> JNum(v.n)
      [] v.t = "NoneType" -> JNull
      [] v.t = "list" -> JArr
      [] v.t = "dict" -> JObj([k \in DOMAIN v.d |-> json_dump(v.d[k])])

\* json.load(rfile): the inverse conversion.
RECURSIVE json_load(_)
json_load(v) ==
    CASE v.j = "string" -> PyStr(v.s)
      [] v.j = "number" -> PyInt(v.n)
      [] v.j = "null" -> PyNone
      [] v.j = "array" -> PyList
      [] v.j = "object" -> PyDict([k \in DOMAIN v.d |-> json_load(v.d[k])])

-----------------------------------------------------------------------------
(* Text helpers.                                                            *)

Digits == {"0", "1", "2", "3", "4", "5", "6", "7", "8", "9"}

DigitVal(c) ==
    CASE c = "0" -> 0 [] c = "1" -> 1 [] c = "2" -> 2 [] c = "3" -> 3
      [] c = "4" -> 4 [] c = "5" -> 5 [] c = "6" -> 6 [] c = "7" -> 7
      [] c = "8" -> 8 [] c = "9" -> 9

DigitChar(k) ==
    CASE k = 0 -> "0" [] k = 1 -> "1" [] k = 2 -> "2" [] k = 3 -> "3"
      [] k = 4 -> "4" [] k = 5 -> "5" [] k = 6 -> "6" [] k = 7 -> "7"
      [] k = 8 -> "8" [] k = 9 -> "9"

\* str(n) for an int n >= 0, as an f-string formats it.
RECURSIVE IntToStr(_)
IntToStr(n) ==
    IF n < 10 THEN <<DigitChar(n)>>
    ELSE IntToStr(n \div 10) \o <<DigitChar(n % 10)>>

\* int(octet_str, 10) for a string of digits.
RECURSIVE StrToInt(_)
StrToInt(s) ==
    IF s = <<>> THEN 0
    ELSE 10 * StrToInt(SubSeq(s, 1, Len(s) - 1)) + DigitVal(s[Len(s)])

\* ip_str.split('.')
RECURSIVE SplitDots(_)
SplitDots(s) ==
    IF \A i \in 1..Len(s) : s[i] # "."
    THEN <<s>>
    ELSE LET i == CHOOSE i \in 1..Len(s) :
                      s[i] = "." /\ \A k \in 1..(i - 1) : s[k] # "."
         IN <<SubSeq(s, 1, i - 1)>> \o SplitDots(SubSeq(s, i + 1, Len(s)))

\* ipaddress.IPv4Address._parse_octet: digits only, at most three of them,
\* value at most 255.  (Recent Python versions also reject a leading zero;
\* no input below has one.)
parse_octet(o) ==
    /\ o # <<>>
    /\ \A i \in 1..Len(o) : o[i] \in Digits
    /\ Len(o) <= 3
    /\ StrToInt(o) <= 255

\* ipaddress.IPv4Address._ip_int_from_string: exactly four octets.
ip_from_string(s) ==
    /\ s # <<>>
    /\ LET octets == SplitDots(s)
       IN /\ Len(octets) = 4
          /\ \A i \in 1..4 : parse_octet(octets[i])

\* is_legal_ipv4_addr(ipaddr): ipaddress.IPv4Address(ipaddr) does not raise.
\* IPv4Address takes an int in 0..2^32-1 as the address itself (the upper
\* limit is above every integer of this model) and parses a str; it parses
\* str(x) of any other value, which for None, a list or a dict never has
\* the dotted form.
is_legal_ipv4_addr(ipaddr) ==
    CASE ipaddr.t = "int" -> 0 <= ipaddr.n
      [] ipaddr.t = "str" -> ip_from_string(ipaddr.s)
      [] OTHER -> FALSE

-----------------------------------------------------------------------------
(* Inputs.                                                                  *)

Chars(a, b, c, d) == IntToStr(a) \o <<".">> \o IntToStr(b) \o <<".">>
                     \o IntToStr(c) \o <<".">> \o IntToStr(d)

IpA == Chars(10, 0, 0, 5)
IpOutOfRange == Chars(999, 999, 999, 999)
IpThreeOctets == IntToStr(1) \o <<".">> \o IntToStr(2) \o <<".">> \o IntToStr(3)

Alice == <<"a", "l", "i", "c", "e">>
EmptyStr == <<>>

\* Command-line values for --add IP USERNAME HOSTNAME.
UserInputs == {Alice, EmptyStr}
AddInputs ==
    {<<IpA, u, h>> : u \in UserInputs, h \in Hostnames}
    \cup {<<IpOutOfRange, Alice, "box1">>}

\* Command-line values for --login, --ping and --remove HOSTNAME.
LookupInputs == {"box1"}

\* One record of the registry, as the Python dict add_server builds.
ServerRecord(ip, username, add_time) ==
    PyDict([ip |-> ip, username |-> username, add_time |-> add_time])

\* argparse namespace: add is the list of three values or empty when the
\* option is absent; login, ping and remove are the hostname or "" when
\* absent (None and "" are both false in an `if`).
NoArgs == [add |-> <<>>, list |-> FALSE, login |-> "", ping |-> "", remove |-> ""]

Namespaces ==
    {[NoArgs EXCEPT !.add = a] : a \in AddInputs}
    \cup {[NoArgs EXCEPT !.list = TRUE]}
    \cup {[NoArgs EXCEPT !.login = h] : h \in LookupInputs}
    \cup {[NoArgs EXCEPT !.ping = h] : h \in LookupInputs}
    \cup {[NoArgs EXCEPT !.remove = h] : h \in LookupInputs}

\* Exit codes the ssh child may return.
SshExitCodes == {0, 255}

-----------------------------------------------------------------------------
(* The registry file.  kind is "absent" (no such file), "json" (the text    *)
(* parses as the JSON value doc), "empty" (just truncated by open(.., 'w')) *)
(* or "garbage" (any other text json.load cannot parse).                    *)

FileAbsent == [kind |-> "absent", doc |-> JNull]
FileEmpty == [kind |-> "empty", doc |-> JNull]
FileGarbage == [kind |-> "garbage", doc |-> JNull]
FileJson(doc) == [kind |-> "json", doc |-> doc]

JRecord(ip, username, add_time) ==
    JObj([ip |-> ip, username |-> username, add_time |-> add_time])

OneEntry(h, entry) == JObj([k \in {h} |-> entry])

\* Files the program may find when it starts: none, files it wrote itself,
\* and files edited by hand.
InitFiles ==
    { FileAbsent,
      FileGarbage,
      FileJson(JObj(EmptyDict)),
      FileJson(OneEntry("box1", JRecord(JStr(IpA), JStr(Alice), JNum(1)))),
      FileJson(OneEntry("box1", JRecord(JNum(5), JStr(Alice), JNum(1)))),
      FileJson(JArr),
      FileJson(OneEntry("box1", JStr(IpA))),
      FileJson(OneEntry("box1", JObj([ip |-> JStr(IpA), username |-> JStr(Alice)]))),
      FileJson(OneEntry("box1", JObj([ip |-> JStr(IpA), username |-> JStr(Alice),
                                      add_time |-> JNum(1), port |-> JNum(22)]))),
      FileJson(OneEntry("box1", JRecord(JStr(IpOutOfRange), JStr(Alice), JNum(1)))),
      FileJson(OneEntry("box1", JRecord(JStr(IpThreeOctets), JStr(Alice), JNum(1)))),
      FileJson(OneEntry("box1", JRecord(JNull, JStr(Alice), JNum(1)))),
      FileJson(OneEntry("box1", JRecord(JStr(IpA), JStr(EmptyStr), JNum(1)))),
      FileJson(OneEntry("box1", JRecord(JStr(IpA), JNum(7), JNum(1)))),
      FileJson(OneEntry("box1", JRecord(JStr(IpA), JStr(Alice), JStr(Alice)))),
      FileJson(OneEntry("box1", JRecord(JStr(IpA), JStr(Alice), JNull))) }

-----------------------------------------------------------------------------
(* The functions of ssh-mgmt.py.                                            *)

REQUIRED_KEYS == {"ip", "username", "add_time"}

\* The checks read_server_data makes on the parsed data: TRUE when none of
\* them raises.
ValidData(data) ==
    /\ data.t = "dict"
    /\ \A hostname \in DOMAIN data.d :
          LET items == data.d[hostname]
          IN /\ items.t = "dict"
             /\ DOMAIN items.d = REQUIRED_KEYS
             /\ is_legal_ipv4_addr(items.d["ip"])
             /\ items.d["username"].t = "str"
             /\ items.d["username"].s # <<>>
             /\ items.d["add_time"].t = "int"

\* read_server_data() on the file f: whether it raises, the dict it returns
\* and the file it leaves (it creates a missing file holding {}).
read_server_data(f) ==
    IF f.kind = "absent"
    THEN [raised |-> FALSE, data |-> PyDict(EmptyDict),
          file |-> FileJson(json_dump(PyDict(EmptyDict))), wrote |-> 1]
    ELSE IF f.kind # "json"
    THEN [raised |-> TRUE, data |-> PyDict(EmptyDict), file |-> f, wrote |-> 0]
    ELSE LET data == json_load(f.doc)
         IN [raised |-> ~ValidData(data),
             data |-> IF ValidData(data) THEN data ELSE PyDict(EmptyDict),
             file |-> f, wrote |-> 0]

\* save_server_data without main's `global server_data`: the module-level
\* dict, still empty, is what gets written.
save_server_data_no_global(sd, f) ==
    {FileJson(json_dump(PyDict(EmptyDict)))}

\* open(data_file, 'w') truncates the file.
open_w(f) == FileEmpty

\* json.dump(server_data, wfile) followed by the close: the text is written
\* at offset 0 of the file as it is then.  On the file this invocation
\* truncated it leaves exactly the text; when another invocation wrote in
\* between, the result is this text followed by whatever of the other text
\* is longer, which json.load cannot parse.
save_server_data(sd, f) ==
    IF f.kind = "empty"
    THEN {FileJson(json_dump(sd))}
    ELSE {FileJson(json_dump(sd)), FileGarbage}

has_server(sd, hostname) == hostname \in DOMAIN sd.d

\* server_data[hostname] = value
SetItem(sd, hostname, value) ==
    PyDict([k \in DOMAIN sd.d \cup {hostname} |->
               IF k = hostname THEN value ELSE sd.d[k]])

\* add_server with the record stored before the duplicate check.
add_server_insert_first(sd, ipaddr, username, hostname, time) ==
    IF ~is_legal_ipv4_addr(PyStr(ipaddr))
    THEN [ret |-> FALSE, server_data |-> sd]
    ELSE [ret |-> ~has_server(sd, hostname),
          server_data |-> SetItem(sd, hostname,
              ServerRecord(PyStr(ipaddr), PyStr(username), PyInt(time)))]

\* add_server without the has_server check.
add_server_no_dup_check(sd, ipaddr, username, hostname, time) ==
    IF ~is_legal_ipv4_addr(PyStr(ipaddr))
    THEN [ret |-> FALSE, server_data |-> sd]
    ELSE [ret |-> TRUE,
          server_data |-> SetItem(sd, hostname,
              ServerRecord(PyStr(ipaddr), PyStr(username), PyInt(time)))]

\* add_server(ipaddr, username, hostname) at wall-clock time `time`: the
\* value returned and the registry afterwards.
add_server(sd, ipaddr, username, hostname, time) ==
    IF ~is_legal_ipv4_addr(PyStr(ipaddr))
    THEN [ret |-> FALSE, server_data |-> sd]
    ELSE IF has_server(sd, hostname)
    THEN [ret |-> FALSE, server_data |-> sd]
    ELSE [ret |-> TRUE,
          server_data |-> SetItem(sd, hostname,
              ServerRecord(PyStr(ipaddr), PyStr(username), PyInt(time)))]

\* list_server(): item.ljust raises AttributeError for a cell that is not
\* a str.  The hostname is a JSON key, the username was checked to be a str
\* and the date is formatted, so only the ip can be something else.
list_server(sd) ==
    [raised |-> \E hostname \in DOMAIN sd.d : sd.d[hostname].d["ip"].t # "str",
     ret |-> TRUE]

\* f"{x}" of a str or an int
Format(v) == IF v.t = "str" THEN v.s ELSE IntToStr(v.n)

\* login_server without the shutil.which check.
login_server_no_which(sd, hostname, w) ==
    IF ~has_server(sd, hostname)
    THEN [ret |-> FALSE, argv |-> <<>>]
    ELSE [ret |-> TRUE,
          argv |-> << <<"s", "s", "h">>,
                      Format(sd.d[hostname].d["username"]) \o <<"@">>
                          \o Format(sd.d[hostname].d["ip"]) >>]

\* login_server(hostname), where w is TRUE when shutil.which("ssh")
\* finds the executable: the value returned and the argument list given to
\* Popen (empty when no process is spawned).
login_server(sd, hostname, w) ==
    IF ~has_server(sd, hostname)
    THEN [ret |-> FALSE, argv |-> <<>>]
    ELSE IF ~w
    THEN [ret |-> FALSE, argv |-> <<>>]
    ELSE [ret |-> TRUE,
          argv |-> << <<"s", "s", "h">>,
                      Format(sd.d[hostname].d["username"]) \o <<"@">>
                          \o Format(sd.d[hostname].d["ip"]) >>]

-----------------------------------------------------------------------------
(* State.                                                                   *)

VARIABLES
    file,          \* server_data.json
    now,           \* the wall clock, in seconds
    runs,          \* invocations started so far
    pc,            \* where each terminal's invocation is in main()
    args,          \* its parsed command line
    server_data,   \* its module-level registry
    ret,           \* main's ret
    which,         \* whether shutil.which("ssh") was called and found ssh
    spawned,       \* the argument list of the child it spawned, or <<>>
    rcode,         \* the exit code of that child
    exitcode,      \* the exit code of the invocation, -1 while it runs
    writes         \* how many times it has written the file

vars == <<file, now, runs, pc, args, server_data, ret, which, spawned,
          rcode, exitcode, writes>>

locals == <<args, server_data, ret, which, spawned, rcode, exitcode, writes>>

NotRunning == {"idle", "exited", "load_failed", "op_crashed"}

Init ==
    /\ file \in InitFiles
    /\ now = 1
    /\ runs = 0
    /\ pc = [p \in Procs |-> "idle"]
    /\ args = [p \in Procs |-> NoArgs]
    /\ server_data = [p \in Procs |-> PyDict(EmptyDict)]
    /\ ret = [p \in Procs |-> TRUE]
    /\ which = [p \in Procs |-> FALSE]
    /\ spawned = [p \in Procs |-> <<>>]
    /\ rcode = [p \in Procs |-> 0]
    /\ exitcode = [p \in Procs |-> -1]
    /\ writes = [p \in Procs |-> 0]

\* The clock advances.
Tick ==
    /\ now < MaxTime
    /\ now' = now + 1
    /\ UNCHANGED <<file, runs, pc, locals>>

\* A new process starts in terminal p: module initialisation and
\* parser.parse_args().
Launch(p, a) ==
    /\ pc[p] \in NotRunning
    /\ runs' = runs + 1
    /\ pc' = [pc EXCEPT ![p] = "parsed"]
    /\ args' = [args EXCEPT ![p] = a]
    /\ server_data' = [server_data EXCEPT ![p] = PyDict(EmptyDict)]
    /\ ret' = [ret EXCEPT ![p] = TRUE]
    /\ which' = [which EXCEPT ![p] = FALSE]
    /\ spawned' = [spawned EXCEPT ![p] = <<>>]
    /\ rcode' = [rcode EXCEPT ![p] = 0]
    /\ exitcode' = [exitcode EXCEPT ![p] = -1]
    /\ writes' = [writes EXCEPT ![p] = 0]
    /\ UNCHANGED <<file, now>>

\* server_data = read_server_data(); ret = True.  An exception ends the
\* process with a traceback and exit code 1.
Load(p) ==
    /\ pc[p] = "parsed"
    /\ LET r == read_server_data(file)
       IN IF r.raised
          THEN /\ pc' = [pc EXCEPT ![p] = "load_failed"]
               /\ exitcode' = [exitcode EXCEPT ![p] = 1]
               /\ UNCHANGED <<file, server_data, writes>>
          ELSE /\ pc' = [pc EXCEPT ![p] = "loaded"]
               /\ server_data' = [server_data EXCEPT ![p] = r.data]
               /\ file' = r.file
               /\ writes' = [writes EXCEPT ![p] = @ + r.wrote]
               /\ UNCHANGED exitcode
    /\ UNCHANGED <<now, runs, args, ret, which, spawned, rcode>>

\* if args.add: ret = add_server(...)
Add(p) ==
    /\ pc[p] = "loaded"
    /\ args[p].add # <<>>
    /\ LET r == add_server(server_data[p], args[p].add[1], args[p].add[2],
                           args[p].add[3], now)
       IN /\ ret' = [ret EXCEPT ![p] = r.ret]
          /\ server_data' = [server_data EXCEPT ![p] = r.server_data]
    /\ pc' = [pc EXCEPT ![p] = "opdone"]
    /\ UNCHANGED <<file, now, runs, args, which, spawned, rcode,
                   exitcode, writes>>

\* elif args.list: ret = list_server()
List(p) ==
    /\ pc[p] = "loaded"
    /\ args[p].add = <<>>
    /\ args[p].list
    /\ LET r == list_server(server_data[p])
       IN IF r.raised
          THEN /\ pc' = [pc EXCEPT ![p] = "op_crashed"]
               /\ exitcode' = [exitcode EXCEPT ![p] = 1]
               /\ UNCHANGED ret
          ELSE /\ pc' = [pc EXCEPT ![p] = "opdone"]
               /\ ret' = [ret EXCEPT ![p] = r.ret]
               /\ UNCHANGED exitcode
    /\ UNCHANGED <<file, now, runs, args, server_data, which, spawned,
                   rcode, writes>>

\* elif args.login: ret = login_server(hostname); the child runs to its end
\* inside proc.wait().
Login(p) ==
    /\ pc[p] = "loaded"
    /\ args[p].add = <<>>
    /\ ~args[p].list
    /\ args[p].login # ""
    /\ \E w \in BOOLEAN :
          LET r == login_server(server_data[p], args[p].login, w)
          IN /\ ret' = [ret EXCEPT ![p] = r.ret]
             /\ which' = [which EXCEPT ![p] =
                              has_server(server_data[p], args[p].login) /\ w]
             /\ spawned' = [spawned EXCEPT ![p] = r.argv]
             /\ IF r.argv # <<>>
                THEN \E c \in SshExitCodes : rcode' = [rcode EXCEPT ![p] = c]
                ELSE UNCHANGED rcode
    /\ pc' = [pc EXCEPT ![p] = "opdone"]
    /\ UNCHANGED <<file, now, runs, args, server_data, exitcode, writes>>

\* None of the three branches of main is taken: --ping, --remove or no
\* option at all.
NoBranch(p) ==
    /\ pc[p] = "loaded"
    /\ args[p].add = <<>>
    /\ ~args[p].list
    /\ args[p].login = ""
    /\ pc' = [pc EXCEPT ![p] = "opdone"]
    /\ UNCHANGED <<file, now, runs, locals>>

\* save_server_data(), line 68: the file is opened for writing.
SaveOpen(p) ==
    /\ pc[p] = "opdone"
    /\ file' = open_w(file)
    /\ writes' = [writes EXCEPT ![p] = @ + 1]
    /\ pc' = [pc EXCEPT ![p] = "saving"]
    /\ UNCHANGED <<now, runs, args, server_data, ret, which, spawned,
                   rcode, exitcode>>

\* save_server_data(), line 69: the registry is written and the file closed.
SaveWrite(p) ==
    /\ pc[p] = "saving"
    /\ file' \in save_server_data(server_data[p], file)
    /\ pc' = [pc EXCEPT ![p] = "saved"]
    /\ UNCHANGED <<now, runs, locals>>

\* if not ret: exit(1); exit(0)
Exit(p) ==
    /\ pc[p] = "saved"
    /\ exitcode' = [exitcode EXCEPT ![p] = IF ~ret[p] THEN 1 ELSE 0]
    /\ pc' = [pc EXCEPT ![p] = "exited"]
    /\ UNCHANGED <<file, now, runs, args, server_data, ret, which,
                   spawned, rcode, writes>>

\* Invocations may overlap: nothing in the program prevents it.
Start(p, a) ==
    /\ runs < MaxRuns
    /\ Launch(p, a)

\* Invocations one after the other: a process starts only when no other is
\* running.
SeqStart(p, a) ==
    /\ runs < MaxSeqRuns
    /\ \A q \in Procs : pc[q] \in NotRunning
    /\ Launch(p, a)

Step(p) ==
    \/ Load(p)
    \/ Add(p)
    \/ List(p)
    \/ Login(p)
    \/ NoBranch(p)
    \/ SaveOpen(p)
    \/ SaveWrite(p)
    \/ Exit(p)

Next ==
    \/ Tick
    \/ \E p \in Procs, a \in Namespaces : Start(p, a)
    \/ \E p \in Procs : Step(p)

Spec == Init /\ [][Next]_vars

SeqNext ==
    \/ Tick
    \/ \E p \in Procs, a \in Namespaces : SeqStart(p, a)
    \/ \E p \in Procs : Step(p)

SeqSpec == Init /\ [][SeqNext]_vars

-----------------------------------------------------------------------------
(* Properties.                                                              *)

\* Positions of main() after read_server_data has returned.
AfterLoad == {"loaded", "opdone", "saving", "saved", "exited", "op_crashed"}

\* Positions after the selected operation has returned.
AfterOp == {"opdone", "saving", "saved", "exited"}

\* The record add_server would store for these arguments now.
NewRecord(a) == ServerRecord(PyStr(a[1]), PyStr(a[2]), PyInt(now))

\* C1: an Add that reports failure leaves the in-memory registry as it was,
\* and Add reports failure exactly when the ip is not a valid IPv4 address
\* or the hostname is already registered.
C1_FailedAddLeavesRegistry ==
    [][\A p \in Procs :
          (pc[p] = "loaded" /\ pc'[p] = "opdone" /\ args[p].add # <<>>)
          => /\ ~ret'[p] <=> \/ ~ip_from_string(args[p].add[1])
                             \/ args[p].add[3] \in DOMAIN server_data[p].d
             /\ ~ret'[p] => server_data'[p] = server_data[p]]_vars

\* A second Add of a registered hostname has failed, with arguments that
\* would have changed the record had they been stored.
C1_Witness ==
    \E p \in Procs :
        /\ pc[p] = "opdone"
        /\ args[p].add # <<>>
        /\ ~ret[p]
        /\ ip_from_string(args[p].add[1])
        /\ args[p].add[3] \in DOMAIN server_data[p].d
        /\ server_data[p].d[args[p].add[3]] # NewRecord(args[p].add)

\* C2: the registry held at the end of an invocation, saved and loaded
\* again, is read without error and is the same mapping.
C2_RoundTrip ==
    \A p \in Procs :
        pc[p] \in AfterOp
        => LET r == read_server_data(FileJson(json_dump(server_data[p])))
           IN ~r.raised /\ r.data = server_data[p]

\* C3: after a successful load every record of the in-memory registry has
\* exactly the fields ip, username and add_time, an ip that is a valid IPv4
\* address, a non-empty string as username and an integer as add_time.
C3_SchemaInvariant ==
    \A p \in Procs :
        pc[p] \in AfterLoad
        => \A h \in DOMAIN server_data[p].d :
              LET rec == server_data[p].d[h]
              IN /\ rec.t = "dict"
                 /\ DOMAIN rec.d = {"ip", "username", "add_time"}
                 /\ is_legal_ipv4_addr(rec.d["ip"])
                 /\ rec.d["username"].t = "str"
                 /\ rec.d["username"].s # <<>>
                 /\ rec.d["add_time"].t = "int"

\* The schema of the registry file as the documentation gives it: an object
\* of objects, each with exactly ip (a dotted-decimal IPv4 string), username
\* (a non-empty string) and add_time (an integer).
FileConforms(f) ==
    /\ f.kind = "json"
    /\ f.doc.j = "object"
    /\ \A h \in DOMAIN f.doc.d :
          LET e == f.doc.d[h]
          IN /\ e.j = "object"
             /\ DOMAIN e.d = {"ip", "username", "add_time"}
             /\ e.d["ip"].j = "string"
             /\ ip_from_string(e.d["ip"].s)
             /\ e.d["username"].j = "string"
             /\ e.d["username"].s # <<>>
             /\ e.d["add_time"].j = "number"

\* C4: when the registry file exists and violates the schema, the load
\* aborts the invocation: nothing is executed or spawned and the file is
\* left as it was.
C4_BadFileAborts ==
    [][\A p \in Procs :
          (pc[p] = "parsed" /\ pc'[p] # "parsed"
              /\ file.kind # "absent" /\ ~FileConforms(file))
          => /\ pc'[p] = "load_failed"
             /\ file' = file
             /\ spawned'[p] = <<>>]_vars

\* server_data without the key hostname.
Without(sd, hostname) ==
    PyDict([k \in DOMAIN sd.d \ {hostname} |-> sd.d[k]])

\* C5: --remove HOSTNAME deletes the entry of a registered hostname and
\* leaves the others, and reports failure for a hostname not registered.
C5_RemoveDeletes ==
    [][\A p \in Procs :
          (pc[p] = "loaded" /\ pc'[p] = "opdone" /\ args[p].remove # "")
          => IF args[p].remove \in DOMAIN server_data[p].d
             THEN /\ server_data'[p] = Without(server_data[p], args[p].remove)
                  /\ ret'[p]
             ELSE /\ server_data'[p] = server_data[p]
                  /\ ~ret'[p]]_vars

\* C6: a child process is spawned only by a Login whose hostname is
\* registered and after the ssh executable was found, and its argument is
\* username@ip of that hostname's record; a Login of an unregistered
\* hostname fails and spawns nothing.
C6_LoginSpawnsOnlyRegistered ==
    \A p \in Procs :
        /\ spawned[p] # <<>>
           => /\ args[p].login # ""
              /\ args[p].login \in DOMAIN server_data[p].d
              /\ which[p]
              /\ LET rec == server_data[p].d[args[p].login]
                 IN spawned[p] = << <<"s", "s", "h">>,
                                    Format(rec.d["username"]) \o <<"@">>
                                       \o Format(rec.d["ip"]) >>
        /\ (pc[p] \in AfterOp /\ args[p].login # ""
               /\ args[p].login \notin DOMAIN server_data[p].d)
           => ~ret[p] /\ spawned[p] = <<>>

\* A Login has spawned ssh and the invocation has exited.
C6_Witness ==
    \E p \in Procs :
        /\ pc[p] = "exited"
        /\ args[p].login # ""
        /\ spawned[p] # <<>>

\* C7: an invocation whose load succeeded ends with exit code 1 when the
\* selected operation reported failure and with 0 otherwise.
C7_ExitCodeReflectsRet ==
    \A p \in Procs :
        pc[p] \in {"exited", "op_crashed"}
        => exitcode[p] = (IF ~ret[p] THEN 1 ELSE 0)

\* C8: a completed save leaves in the file the registry of the invocation
\* that saved, whatever the file held and whoever wrote it in between
\* (or, when two writes overlapped, text that does not parse): nothing of
\* another invocation's save is merged in.
C8_LastWriterWins ==
    [][\A p \in Procs :
          (pc[p] = "saving" /\ pc'[p] = "saved")
          => \/ file' = FileJson(json_dump(server_data[p]))
             \/ file' = FileGarbage /\ file.kind # "empty"]_vars

\* Two overlapping invocations each added a different hostname with
\* success and exited with 0, and the file holds only one of them.
C8_Witness ==
    \E p, q \in Procs :
        /\ p # q
        /\ pc[p] = "exited" /\ pc[q] = "exited"
        /\ args[p].add # <<>> /\ args[q].add # <<>>
        /\ args[p].add[3] # args[q].add[3]
        /\ ret[p] /\ ret[q]
        /\ exitcode[p] = 0 /\ exitcode[q] = 0
        /\ file.kind = "json"
        /\ args[p].add[3] \notin DOMAIN file.doc.d
        /\ args[q].add[3] \in DOMAIN file.doc.d

\* C9: an invocation whose load succeeded has written the registry file
\* exactly once when it ends.
C9_WritesOnce ==
    \A p \in Procs :
        pc[p] \in {"exited", "op_crashed"} => writes[p] = 1

\* The records known for hostname h: in the file and in the registries of
\* the invocations.
RecordsOf(h) ==
    {server_data[p].d[h] : p \in {q \in Procs : h \in DOMAIN server_data[q].d}}
    \cup (IF file.kind = "json" /\ file.doc.j = "object"
          THEN {json_load(file.doc.d[k]) : k \in DOMAIN file.doc.d \cap {h}}
          ELSE {})

\* C10: with invocations one after the other, a record registered for a
\* hostname is the same in every later copy of the registry, in memory and
\* in the file, its add_time included; and List leaves the registry as it
\* is.
C10_AddTimeNeverModified ==
    [][/\ \A h \in Hostnames :
             \A r1 \in RecordsOf(h) : \A r2 \in RecordsOf(h)' : r1 = r2
       /\ \A p \in Procs :
             (pc[p] = "loaded" /\ pc'[p] # "loaded" /\ args[p].list)
             => server_data'[p] = server_data[p] /\ file' = file]_vars

\* A later invocation tried to add a hostname registered at an earlier
\* time, failed, saved and exited: the record still has the earlier time.
C10_Witness ==
    \E p \in Procs :
        /\ pc[p] = "exited"
        /\ runs > 1
        /\ args[p].add # <<>>
        /\ ~ret[p]
        /\ args[p].add[3] \in DOMAIN server_data[p].d
        /\ server_data[p].d[args[p].add[3]].d["add_time"].n < now
        /\ file = FileJson(json_dump(server_data[p]))

====
